---- MODULE Spec2Model ----
(***************************************************************************)
(* Model of libs/fonts/scripts/convert-to-static.py: the command line      *)
(* driver main() and convert_variable_to_static(), which pins the          *)
(* variation axes of a font and saves a static instance.                   *)
(*                                                                         *)
(* Strings whose content the program inspects (the weight argument and the *)
(* italic argument) are sequences of one-character strings, so that int()  *)
(* and str.lower() are computed rather than assumed.  The font library     *)
(* (TTFont, instancer) is an opaque collaborator: each of its calls either *)
(* returns or raises an Exception, chosen nondeterministically.            *)
(***************************************************************************)
EXTENDS Integers, Sequences, FiniteSets, TLC

VARIABLES
    argv,          \* sys.argv: argv[1] is the script name (Python's sys.argv[0])
    inputExists,   \* os.path.exists(input_file)
    pc,            \* position of the process in the script
    weight,        \* main's local `weight`
    italic,        \* main's local `italic`
    hasFvar,       \* 'fvar' in varfont
    axes,          \* fvar.axes: sequence of [axisTag, defaultValue]
    varfont,       \* state of the input font handle
    static_font,   \* state of the instance handle returned by the instancer
    axis_limits,   \* the dict built in convert_variable_to_static
    instCalls,     \* number of calls of instancer.instantiateVariableFont
    instArg,       \* the axis limits handed to the last such call
    output,        \* what is at output_path: [state, font]
    e,             \* origin of the exception raised, "none" if none
    success,       \* value returned by convert_variable_to_static
    exitCode,      \* process exit status, -1 while running
    exitVia        \* "sys.exit" or "traceback"

vars == <<argv, inputExists, pc, weight, italic, hasFvar, axes, varfont,
          static_font, axis_limits, instCalls, instArg, output, e, success,
          exitCode, exitVia>>

----------------------------------------------------------------------------
(* Bounds *)

MaxArgc == 6        \* largest len(sys.argv) explored
MaxAxes == 3        \* largest number of axes in an fvar table explored

----------------------------------------------------------------------------
(* Input alphabets *)

ScriptName == <<"c">>
InputPath  == <<"i">>
OutputPath == <<"o">>

WeightTokens ==
    { <<"4","0","0">>, <<"7","0","0">>, <<"1","0","0","0">>, <<"-","5">>,
      <<"b","o","l","d">>, <<"4",".","5">>, <<>> }

ItalicTokens ==
    { <<"i","t","a","l","i","c">>, <<"I","t","a","l","i","c">>,
      <<"I","T","A","L","I","C">>, <<"i","t","a","l","i","c","s">>,
      <<"b","o","l","d">>, <<>> }

ExtraTokens == { <<"i","t","a","l","i","c">>, <<"x">> }

\* The five tags the script pins, and one it does not know.
AxisTags == {"wght", "wdth", "ital", "slnt", "opsz", "GRAD"}

OpszDefaults == {14, 20}

DefaultValues(tag) ==
    CASE tag = "wght" -> {400}
      [] tag = "wdth" -> {100}
      [] tag = "opsz" -> OpszDefaults
      [] OTHER        -> {0}

AxisRecords ==
    UNION { { [axisTag |-> t, defaultValue |-> d] : d \in DefaultValues(t) }
            : t \in AxisTags }

\* fvar tables: at least one axis, tags pairwise distinct.
FvarAxes ==
    UNION { { s \in [1..n -> AxisRecords] :
                \A i, j \in 1..n : i # j => s[i].axisTag # s[j].axisTag }
            : n \in 1..MaxAxes }

\* The values the model gives to sys.argv[i - 1]
ArgChoices(i) ==
    CASE i = 1 -> {ScriptName}
      [] i = 2 -> {InputPath}
      [] i = 3 -> {OutputPath}
      [] i = 4 -> WeightTokens
      [] i = 5 -> ItalicTokens
      [] OTHER -> ExtraTokens

RECURSIVE ArgvOfLen(_)
ArgvOfLen(n) ==
    IF n = 0 THEN {<<>>}
    ELSE { Append(s, t) : s \in ArgvOfLen(n - 1), t \in ArgChoices(n) }

\* sys.argv[i], Python's 0-based indexing
Arg(i) == argv[i + 1]

----------------------------------------------------------------------------
(* int(): optional sign followed by one or more decimal digits *)

IsDigit(c) == c \in {"0","1","2","3","4","5","6","7","8","9"}

DigitVal(c) ==
    CASE c = "0" -> 0 [] c = "1" -> 1 [] c = "2" -> 2 [] c = "3" -> 3
      [] c = "4" -> 4 [] c = "5" -> 5 [] c = "6" -> 6 [] c = "7" -> 7
      [] c = "8" -> 8 [] c = "9" -> 9

RECURSIVE DigitsValue(_)
DigitsValue(d) ==
    IF d = <<>> THEN 0
    ELSE 10 * DigitsValue(SubSeq(d, 1, Len(d) - 1)) + DigitVal(d[Len(d)])

ParseInt(s) ==
    LET signed == Len(s) > 0 /\ s[1] \in {"+", "-"}
        body   == IF signed THEN Tail(s) ELSE s
        wf     == Len(body) > 0 /\ \A i \in 1..Len(body) : IsDigit(body[i])
    IN  IF ~wf THEN [ok |-> FALSE, value |-> 0]
        ELSE [ok |-> TRUE,
              value |-> IF signed /\ s[1] = "-" THEN 0 - DigitsValue(body)
                        ELSE DigitsValue(body)]

----------------------------------------------------------------------------
(* str.lower() *)

LowerChar(c) ==
    CASE c = "A" -> "a" [] c = "B" -> "b" [] c = "C" -> "c" [] c = "D" -> "d"
      [] c = "E" -> "e" [] c = "F" -> "f" [] c = "G" -> "g" [] c = "H" -> "h"
      [] c = "I" -> "i" [] c = "J" -> "j" [] c = "K" -> "k" [] c = "L" -> "l"
      [] c = "M" -> "m" [] c = "N" -> "n" [] c = "O" -> "o" [] c = "P" -> "p"
      [] c = "Q" -> "q" [] c = "R" -> "r" [] c = "S" -> "s" [] c = "T" -> "t"
      [] c = "U" -> "u" [] c = "V" -> "v" [] c = "W" -> "w" [] c = "X" -> "x"
      [] c = "Y" -> "y" [] c = "Z" -> "z" [] OTHER -> c

Lower(s) == [i \in 1..Len(s) |-> LowerChar(s[i])]

\* A mutant of ItalicFlag: the comparison is case-sensitive.
ItalicFlag_CaseSensitive(args) ==
    Len(args) > 4 /\ args[5] = <<"i","t","a","l","i","c">>

\* len(sys.argv) > 4 and sys.argv[4].lower() == 'italic'
ItalicFlag(args) ==
    Len(args) > 4 /\ Lower(args[5]) = <<"i","t","a","l","i","c">>

----------------------------------------------------------------------------
(* The axis pinning of convert_variable_to_static *)

EmptyMap == [t \in {} |-> 0]

\* dict assignment m[k] = v
Put(m, k, v) == [x \in DOMAIN m \cup {k} |-> IF x = k THEN v ELSE m[x]]

\* [axis.axisTag for axis in fvar.axes]
AxisTagList(ax) == [i \in 1..Len(ax) |-> ax[i].axisTag]

InList(t, l) == \E i \in 1..Len(l) : l[i] = t

\* for axis in fvar.axes: if axis.axisTag == 'opsz': ...; break
RECURSIVE PinOpsz(_, _, _)
PinOpsz(m, ax, i) ==
    IF i > Len(ax) THEN m
    ELSE IF ax[i].axisTag = "opsz" THEN Put(m, "opsz", ax[i].defaultValue)
    ELSE PinOpsz(m, ax, i + 1)

\* A mutant of AxisLimits: the weight is clamped to 100..900.
AxisLimits_ClampedWeight(ax, w, it) ==
    LET tags == AxisTagList(ax)
        cw == IF w < 100 THEN 100 ELSE IF w > 900 THEN 900 ELSE w
        m1 == IF InList("wght", tags) THEN Put(EmptyMap, "wght", cw) ELSE EmptyMap
        m2 == IF InList("wdth", tags) THEN Put(m1, "wdth", 100) ELSE m1
        m3 == IF InList("ital", tags) THEN Put(m2, "ital", IF it THEN 1 ELSE 0) ELSE m2
        m4 == IF InList("slnt", tags) THEN Put(m3, "slnt", IF it THEN -12 ELSE 0) ELSE m3
    IN  IF InList("opsz", tags) THEN PinOpsz(m4, ax, 1) ELSE m4

RECURSIVE PinAll(_, _, _)
PinAll(m, ax, i) ==
    IF i > Len(ax) THEN m
    ELSE PinAll(IF ax[i].axisTag \in DOMAIN m THEN m
                ELSE Put(m, ax[i].axisTag, ax[i].defaultValue), ax, i + 1)

\* A mutant of AxisLimits: every remaining axis is pinned to its default.
AxisLimits_PinsEveryAxis(ax, w, it) ==
    LET tags == AxisTagList(ax)
        m1 == IF InList("wght", tags) THEN Put(EmptyMap, "wght", w) ELSE EmptyMap
        m2 == IF InList("wdth", tags) THEN Put(m1, "wdth", 100) ELSE m1
        m3 == IF InList("ital", tags) THEN Put(m2, "ital", IF it THEN 1 ELSE 0) ELSE m2
        m4 == IF InList("slnt", tags) THEN Put(m3, "slnt", IF it THEN -12 ELSE 0) ELSE m3
    IN  PinAll(m4, ax, 1)

\* lines 55-80: the dict after the five `if` statements
AxisLimits(ax, w, it) ==
    LET tags == AxisTagList(ax)
        m1 == IF InList("wght", tags) THEN Put(EmptyMap, "wght", w) ELSE EmptyMap
        m2 == IF InList("wdth", tags) THEN Put(m1, "wdth", 100) ELSE m1
        m3 == IF InList("ital", tags) THEN Put(m2, "ital", IF it THEN 1 ELSE 0) ELSE m2
        m4 == IF InList("slnt", tags) THEN Put(m3, "slnt", IF it THEN -12 ELSE 0) ELSE m3
    IN  IF InList("opsz", tags) THEN PinOpsz(m4, ax, 1) ELSE m4

----------------------------------------------------------------------------
(* Initial state: the process has been started with some command line.     *)

Untouched == [state |-> "untouched", font |-> "none"]

Init ==
    /\ argv \in UNION { ArgvOfLen(n) : n \in 1..MaxArgc }
    /\ inputExists \in BOOLEAN
    /\ pc = "import"
    /\ weight = 400
    /\ italic = FALSE
    /\ hasFvar = FALSE
    /\ axes = <<>>
    /\ varfont = "unopened"
    /\ static_font = "unopened"
    /\ axis_limits = EmptyMap
    /\ instCalls = 0
    /\ instArg = EmptyMap
    /\ output = Untouched
    /\ e = "none"
    /\ success = "unset"
    /\ exitCode = -1
    /\ exitVia = "none"

\* sys.exit(code)
SysExit(code) ==
    /\ pc' = "exit"
    /\ exitCode' = code
    /\ exitVia' = "sys.exit"

\* An exception leaves main() uncaught.
Propagate(origin) ==
    /\ pc' = "fault"
    /\ e' = origin

----------------------------------------------------------------------------
(* Module level *)

\* lines 22-27: import fontTools, or report and exit 1
ImportFontTools ==
    /\ pc = "import"
    /\ \E installed \in BOOLEAN :
          IF installed
          THEN pc' = "main" /\ UNCHANGED <<exitCode, exitVia>>
          ELSE SysExit(1)
    /\ UNCHANGED <<argv, inputExists, weight, italic, hasFvar, axes, varfont,
                   static_font, axis_limits, instCalls, instArg, output, e,
                   success>>

\* An exception that nothing catches: the interpreter prints the traceback
\* and the process ends with status 1.
UncaughtException ==
    /\ pc = "fault"
    /\ pc' = "exit"
    /\ exitCode' = 1
    /\ exitVia' = "traceback"
    /\ UNCHANGED <<argv, inputExists, weight, italic, hasFvar, axes, varfont,
                   static_font, axis_limits, instCalls, instArg, output, e,
                   success>>

----------------------------------------------------------------------------
(* main() *)

\* lines 106-118
MainUsage ==
    /\ pc = "main"
    /\ Len(argv) < 4
    /\ SysExit(1)
    /\ UNCHANGED <<argv, inputExists, weight, italic, hasFvar, axes, varfont,
                   static_font, axis_limits, instCalls, instArg, output, e,
                   success>>

\* lines 120-123
MainParseArgs ==
    /\ pc = "main"
    /\ Len(argv) >= 4
    /\ LET w == ParseInt(Arg(3))
       IN  IF w.ok
           THEN /\ weight' = w.value
                /\ italic' = ItalicFlag(argv)
                /\ pc' = "parsed"
                /\ UNCHANGED e
           ELSE /\ Propagate("int")
                /\ UNCHANGED <<weight, italic>>
    /\ UNCHANGED <<argv, inputExists, hasFvar, axes, varfont, static_font,
                   axis_limits, instCalls, instArg, output, success,
                   exitCode, exitVia>>

\* A mutant of MainInputMissing: the message is printed but main goes on.
MainInputMissing_NoExit ==
    /\ pc = "parsed"
    /\ ~inputExists
    /\ pc' = "open"
    /\ UNCHANGED <<argv, inputExists, weight, italic, hasFvar, axes, varfont,
                   static_font, axis_limits, instCalls, instArg, output, e,
                   success, exitCode, exitVia>>

\* lines 125-127
MainInputMissing ==
    /\ pc = "parsed"
    /\ ~inputExists
    /\ SysExit(1)
    /\ UNCHANGED <<argv, inputExists, weight, italic, hasFvar, axes, varfont,
                   static_font, axis_limits, instCalls, instArg, output, e,
                   success>>

\* lines 125-132: the input exists, convert_variable_to_static is entered
MainCallConvert ==
    /\ pc = "parsed"
    /\ inputExists
    /\ pc' = "open"
    /\ UNCHANGED <<argv, inputExists, weight, italic, hasFvar, axes, varfont,
                   static_font, axis_limits, instCalls, instArg, output, e,
                   success, exitCode, exitVia>>

\* lines 134-137
MainReportSuccess ==
    /\ pc = "returned"
    /\ success = "True"
    /\ SysExit(0)
    /\ UNCHANGED <<argv, inputExists, weight, italic, hasFvar, axes, varfont,
                   static_font, axis_limits, instCalls, instArg, output, e,
                   success>>

\* A mutant of MainReportFailure: the failure is reported with status 0.
MainReportFailure_ExitZero ==
    /\ pc = "returned"
    /\ success = "False"
    /\ SysExit(0)
    /\ UNCHANGED <<argv, inputExists, weight, italic, hasFvar, axes, varfont,
                   static_font, axis_limits, instCalls, instArg, output, e,
                   success>>

\* lines 138-140
MainReportFailure ==
    /\ pc = "returned"
    /\ success = "False"
    /\ SysExit(1)
    /\ UNCHANGED <<argv, inputExists, weight, italic, hasFvar, axes, varfont,
                   static_font, axis_limits, instCalls, instArg, output, e,
                   success>>

----------------------------------------------------------------------------
(* convert_variable_to_static() *)

\* line 40: TTFont(input_path) reads the font, or raises on an unreadable one
OpenFont ==
    /\ pc = "open"
    /\ \/ /\ varfont' = "open"
          /\ \/ hasFvar' = FALSE /\ axes' = <<>>
             \/ hasFvar' = TRUE /\ axes' \in FvarAxes
          /\ pc' = "opened"
          /\ UNCHANGED e
       \/ /\ Propagate("open")
          /\ UNCHANGED <<varfont, hasFvar, axes>>
    /\ UNCHANGED <<argv, inputExists, weight, italic, static_font,
                   axis_limits, instCalls, instArg, output, success,
                   exitCode, exitVia>>

\* A failed save leaves the output path as it was, or partially written.
FailedWrite(font) == {output, [state |-> "partial", font |-> font]}

\* lines 43-46: no fvar table, varfont.save(output_path)
StaticSave ==
    /\ pc = "opened"
    /\ ~hasFvar
    /\ \/ /\ output' = [state |-> "complete", font |-> "varfont"]
          /\ pc' = "copied"
          /\ UNCHANGED e
       \/ /\ output' \in FailedWrite("varfont")
          /\ Propagate("save")
    /\ UNCHANGED <<argv, inputExists, weight, italic, hasFvar, axes, varfont,
                   static_font, axis_limits, instCalls, instArg, success,
                   exitCode, exitVia>>

\* lines 47-48: varfont.close(); return True
StaticCloseReturn ==
    /\ pc = "copied"
    /\ varfont' = "closed"
    /\ success' = "True"
    /\ pc' = "returned"
    /\ UNCHANGED <<argv, inputExists, weight, italic, hasFvar, axes,
                   static_font, axis_limits, instCalls, instArg, output, e,
                   exitCode, exitVia>>

\* A mutant of BuildAxisLimits: the test for the fvar table is missing.
BuildAxisLimits_NoFvarCheck ==
    /\ pc = "opened"
    /\ axis_limits' = AxisLimits(axes, weight, italic)
    /\ pc' = "instantiate"
    /\ UNCHANGED <<argv, inputExists, weight, italic, hasFvar, axes, varfont,
                   static_font, instCalls, instArg, output, e, success,
                   exitCode, exitVia>>

\* lines 43, 50-82: the font has an fvar table, build axis_limits
BuildAxisLimits ==
    /\ pc = "opened"
    /\ hasFvar
    /\ axis_limits' = AxisLimits(axes, weight, italic)
    /\ pc' = "instantiate"
    /\ UNCHANGED <<argv, inputExists, weight, italic, hasFvar, axes, varfont,
                   static_font, instCalls, instArg, output, e, success,
                   exitCode, exitVia>>

\* lines 85-92: instancer.instantiateVariableFont(varfont, axis_limits, ...)
InstantiateVariableFont ==
    /\ pc = "instantiate"
    /\ instCalls' = instCalls + 1
    /\ instArg' = axis_limits
    /\ \/ /\ static_font' = "open"
          /\ pc' = "save"
          /\ UNCHANGED e
       \/ /\ e' = "instantiate"
          /\ pc' = "except"
          /\ UNCHANGED static_font
    /\ UNCHANGED <<argv, inputExists, weight, italic, hasFvar, axes, varfont,
                   axis_limits, output, success, exitCode, exitVia>>

\* A mutant of SaveStaticFont: the save is outside the try block.
SaveStaticFont_OutsideTry ==
    /\ pc = "save"
    /\ \/ /\ output' = [state |-> "complete", font |-> "static_font"]
          /\ pc' = "close"
          /\ UNCHANGED e
       \/ /\ output' \in FailedWrite("static_font")
          /\ Propagate("save")
    /\ UNCHANGED <<argv, inputExists, weight, italic, hasFvar, axes, varfont,
                   static_font, axis_limits, instCalls, instArg, success,
                   exitCode, exitVia>>

\* line 94, inside the try block: static_font.save(output_path)
SaveStaticFont ==
    /\ pc = "save"
    /\ \/ /\ output' = [state |-> "complete", font |-> "static_font"]
          /\ pc' = "close"
          /\ UNCHANGED e
       \/ /\ output' \in FailedWrite("static_font")
          /\ e' = "save"
          /\ pc' = "except"
    /\ UNCHANGED <<argv, inputExists, weight, italic, hasFvar, axes, varfont,
                   static_font, axis_limits, instCalls, instArg, success,
                   exitCode, exitVia>>

\* lines 95-97: static_font.close(); varfont.close(); return True
CloseAndReturnTrue ==
    /\ pc = "close"
    /\ static_font' = "closed"
    /\ varfont' = "closed"
    /\ success' = "True"
    /\ pc' = "returned"
    /\ UNCHANGED <<argv, inputExists, weight, italic, hasFvar, axes,
                   axis_limits, instCalls, instArg, output, e, exitCode,
                   exitVia>>

\* A mutant of ExceptHandler: the handler forgets varfont.close().
ExceptHandler_NoClose ==
    /\ pc = "except"
    /\ success' = "False"
    /\ pc' = "returned"
    /\ UNCHANGED <<argv, inputExists, weight, italic, hasFvar, axes, varfont,
                   static_font, axis_limits, instCalls, instArg, output, e,
                   exitCode, exitVia>>

\* A mutant of ExceptHandler: the error is swallowed and True returned.
ExceptHandler_ReturnTrue ==
    /\ pc = "except"
    /\ varfont' = "closed"
    /\ success' = "True"
    /\ pc' = "returned"
    /\ UNCHANGED <<argv, inputExists, weight, italic, hasFvar, axes,
                   static_font, axis_limits, instCalls, instArg, output, e,
                   exitCode, exitVia>>

\* lines 99-102: except Exception: print; varfont.close(); return False
ExceptHandler ==
    /\ pc = "except"
    /\ varfont' = "closed"
    /\ success' = "False"
    /\ pc' = "returned"
    /\ UNCHANGED <<argv, inputExists, weight, italic, hasFvar, axes,
                   static_font, axis_limits, instCalls, instArg, output, e,
                   exitCode, exitVia>>

----------------------------------------------------------------------------

Next ==
    \/ ImportFontTools
    \/ MainUsage
    \/ MainParseArgs
    \/ MainInputMissing
    \/ MainCallConvert
    \/ OpenFont
    \/ StaticSave
    \/ StaticCloseReturn
    \/ BuildAxisLimits
    \/ InstantiateVariableFont
    \/ SaveStaticFont
    \/ CloseAndReturnTrue
    \/ ExceptHandler
    \/ MainReportSuccess
    \/ MainReportFailure
    \/ UncaughtException

Spec == Init /\ [][Next]_vars

TypeOK ==
    /\ pc \in {"import", "main", "parsed", "open", "opened", "copied",
               "instantiate", "save", "close", "except", "returned",
               "fault", "exit"}
    /\ weight \in Int
    /\ italic \in BOOLEAN
    /\ hasFvar \in BOOLEAN
    /\ varfont \in {"unopened", "open", "closed"}
    /\ static_font \in {"unopened", "open", "closed"}
    /\ instCalls \in 0..1
    /\ output.state \in {"untouched", "partial", "complete"}
    /\ e \in {"none", "int", "open", "instantiate", "save"}
    /\ success \in {"unset", "True", "False"}
    /\ exitCode \in {-1, 0, 1}
    /\ exitVia \in {"none", "sys.exit", "traceback"}

----------------------------------------------------------------------------
(* Vocabulary of the properties *)

PinnedTags == {"wght", "wdth", "ital", "slnt", "opsz"}

TagSet(ax) == { ax[i].axisTag : i \in 1..Len(ax) }

DeclaredDefault(ax, t) ==
    LET i == CHOOSE j \in 1..Len(ax) : ax[j].axisTag = t
    IN  ax[i].defaultValue

\* axis_limits has been built by the conversion in progress
LimitsBuilt == hasFvar /\ pc # "opened"

ExpectedLimits ==
    [t \in TagSet(axes) \cap PinnedTags |->
        CASE t = "wght" -> weight
          [] t = "wdth" -> 100
          [] t = "ital" -> IF italic THEN 1 ELSE 0
          [] t = "slnt" -> IF italic THEN -12 ELSE 0
          [] t = "opsz" -> DeclaredDefault(axes, "opsz")]

CasePairs ==
    { {"a","A"}, {"b","B"}, {"c","C"}, {"d","D"}, {"e","E"}, {"f","F"},
      {"g","G"}, {"h","H"}, {"i","I"}, {"j","J"}, {"k","K"}, {"l","L"},
      {"m","M"}, {"n","N"}, {"o","O"}, {"p","P"}, {"q","Q"}, {"r","R"},
      {"s","S"}, {"t","T"}, {"u","U"}, {"v","V"}, {"w","W"}, {"x","X"},
      {"y","Y"}, {"z","Z"} }

EqualsIgnoringCase(s, t) ==
    /\ Len(s) = Len(t)
    /\ \A i \in 1..Len(s) : s[i] = t[i] \/ {s[i], t[i]} \in CasePairs

\* The weight argument is not the decimal notation of an integer.
NonIntegerWeight(s) ==
    \/ s = <<>>
    \/ \E i \in 1..Len(s) : ~IsDigit(s[i]) /\ ~(i = 1 /\ s[i] \in {"+", "-"})
    \/ \A i \in 1..Len(s) : ~IsDigit(s[i])

\* main has parsed its arguments and the process has not ended yet
ArgsParsed ==
    pc \in {"parsed", "open", "opened", "copied", "instantiate", "save",
            "close", "except", "returned"}

\* convert_variable_to_static has been left, by return or by exception
ConvertLeft ==
    \/ pc = "returned"
    \/ pc = "fault" /\ e \in {"open", "save"}
    \/ pc = "exit" /\ (success # "unset" \/ e \in {"open", "save"})

----------------------------------------------------------------------------
(* Properties *)

\* C1: once built, the axis-limits map is exactly wght -> weight (not
\* clamped), wdth -> 100, ital -> 1/0, slnt -> -12/0, opsz -> the opsz axis's
\* declared default, each for a tag the font has, and no other key; it is
\* empty when the font has none of the five tags; tags {wght, wdth, slnt}
\* with weight 400, non-italic, give exactly {wght: 400, wdth: 100, slnt: 0}.
C1_AxisLimitsExact ==
    LimitsBuilt =>
        /\ axis_limits = ExpectedLimits
        /\ TagSet(axes) \cap PinnedTags = {} => DOMAIN axis_limits = {}
        /\ (TagSet(axes) = {"wght", "wdth", "slnt"} /\ weight = 400 /\ ~italic)
             => axis_limits = ("wght" :> 400 @@ "wdth" :> 100 @@ "slnt" :> 0)

C1_Witness ==
    /\ LimitsBuilt
    /\ TagSet(axes) = {"wght", "slnt", "opsz"}
    /\ weight = 1000
    /\ italic
    /\ axis_limits["wght"] = 1000
    /\ axis_limits["opsz"] = 20

C3_InputHandleClosedOnEveryPath ==
    (ConvertLeft /\ varfont # "unopened") => varfont = "closed"

\* C4: when the instancing call raises, the exception is caught: the input
\* handle is closed, the function returns the failure value, instancing was
\* called once only, nothing propagates, and the process exits with 1.
C4_InstancingFailureCaught ==
    e = "instantiate" =>
        /\ instCalls = 1
        /\ pc \in {"except", "returned", "exit"}
        /\ pc # "except" => varfont = "closed" /\ success = "False"
        /\ pc = "exit" => exitCode = 1 /\ exitVia = "sys.exit"

C4_Witness ==
    /\ e = "instantiate"
    /\ pc = "exit"
    /\ varfont = "closed"
    /\ exitCode = 1

\* C5 as stated: a failure while writing the output is never caught and
\* turned into the failure return value; it propagates out of the function
\* and ends the process outside the script's own exits.
C5_WriteFailureNeverCaught ==
    e = "save" =>
        /\ success # "False"
        /\ pc = "exit" => exitVia = "traceback"

\* C5 as amended: a write failure for an already-static font propagates
\* uncaught out of the function; a write failure for a variable font is
\* caught by the handler of the try block and turned into the failure
\* return value, and the process exits with 1 through sys.exit.
C5_WriteFailureCaughtOnlyForVariableFont ==
    e = "save" =>
        IF hasFvar
        THEN /\ pc \in {"except", "returned", "exit"}
             /\ pc # "except" => success = "False"
             /\ pc = "exit" => exitCode = 1 /\ exitVia = "sys.exit"
        ELSE /\ pc \in {"fault", "exit"}
             /\ success = "unset"
             /\ pc = "exit" => exitVia = "traceback"

C5_Witness ==
    /\ e = "save"
    /\ hasFvar
    /\ pc = "exit"
    /\ exitVia = "sys.exit"

\* C6 as stated: success is reported only with the output written
\* completely, and failure is reported only when nothing, complete or
\* partial, has been written to the output path.
C6_AllOrNothing ==
    /\ success = "True" => output.state = "complete"
    /\ success = "False" => output.state = "untouched"

\* C6 as amended: success is reported only with the output written
\* completely; failure is reported only with the output not completely
\* written: nothing has been written when instancing raised, but when saving
\* the instance of a variable font raised, failure is reported after the
\* write and a partial output may be left.  Instancing is attempted once.
C6_SuccessIffComplete ==
    /\ instCalls <= 1
    /\ success = "True" => output.state = "complete" /\ e = "none"
    /\ success = "False" =>
          /\ output.state # "complete"
          /\ e \in {"instantiate", "save"}
          /\ e = "instantiate" => output = Untouched
          /\ output.state = "partial" => e = "save"

C6_Witness ==
    /\ success = "False"
    /\ output = [state |-> "partial", font |-> "static_font"]
    /\ pc = "exit"

\* C7: a finished run has exit code 0 or 1; the code is 0 if and only if
\* the conversion was called and returned success; a wrong argument count,
\* a non-integer weight, a missing input and a failed conversion end with 1.
C7_ExitCodes ==
    pc = "exit" =>
        /\ exitCode \in {0, 1}
        /\ exitCode = 0 <=> (success = "True" /\ varfont # "unopened")
        /\ Len(argv) < 4 => exitCode = 1
        /\ (Len(argv) >= 4 /\ NonIntegerWeight(Arg(3))) => exitCode = 1
        /\ (Len(argv) >= 4 /\ ~inputExists) => exitCode = 1
        /\ success = "False" => exitCode = 1

C7_Witness ==
    /\ pc = "exit"
    /\ success = "False"
    /\ exitCode = 1
    /\ exitVia = "sys.exit"

C9_EarlyExitTouchesNothing ==
    (Len(argv) < 4 \/ ~inputExists) =>
        /\ varfont = "unopened"
        /\ instCalls = 0
        /\ output = Untouched
        /\ pc \in {"import", "main", "parsed", "fault", "exit"}
        /\ pc = "exit" => exitCode = 1

C9_Witness ==
    /\ pc = "exit"
    /\ Len(argv) >= 4
    /\ ~inputExists
    /\ e = "none"
    /\ weight = 700
    /\ exitCode = 1

\* C10: the italic flag is true if and only if sys.argv has a fourth
\* argument that equals "italic" up to letter case; later arguments have no
\* effect.
C10_ItalicFlag ==
    ArgsParsed =>
        (italic <=> (Len(argv) >= 5
                     /\ EqualsIgnoringCase(Arg(4), <<"i","t","a","l","i","c">>)))

C10_Witness ==
    /\ pc = "open"
    /\ italic
    /\ Arg(4) = <<"I","T","A","L","I","C">>

====
